---- MODULE Spec2Model ----
(***************************************************************************)
(* Model of validate_current_solution.py: the function validate_coloring   *)
(* (lines 28-47) and the module-level run that calls it on the built-in    *)
(* Australia data and then summarises the colours used (lines 49-58).      *)
(*                                                                         *)
(* A dict is a sequence of <<key, value>> pairs with distinct keys when    *)
(* its iteration order matters (adjacencies) and a function on its key set *)
(* when only lookups are made (solution).  A failed lookup d[k] is the     *)
(* KeyError Python raises; it ends the call.                               *)
(***************************************************************************)
EXTENDS Integers, Sequences, FiniteSets, TLC

VARIABLES
    solution,      \* the coloring passed to validate_coloring (dict region -> colour)
    adjacencies,   \* the graph passed to validate_coloring (dict region -> list, in order)
    pc,            \* "main" | "loop" | "returned" | "raised" | "done"
    idx,           \* position of the for loop of line 33 in adjacencies.items()
    valid,         \* local of validate_coloring (line 30)
    violations,    \* local of validate_coloring (line 31)
    outcomes,      \* what each finished call gave its caller, in call order
    colors_used,   \* module-level colors_used (line 57), {} until it is computed
    printed        \* what line 58 prints: <<len(colors_used), sorted(colors_used)>>

vars == <<solution, adjacencies, pc, idx, valid, violations, outcomes, colors_used,
          printed>>

(***************************************************************************)
(* Bounds of the generated inputs.                                         *)
(***************************************************************************)
MaxEdges == 3      \* total number of neighbour-list entries of a generated graph
MaxCalls == 2      \* calls made on the same inputs under SpecTwice

Nodes == {"WA", "NT", "SA"}      \* region names of the generated inputs
Labels == {"red", "blue"}        \* colours of the generated inputs

(***************************************************************************)
(* The built-in data (module level).                                       *)
(***************************************************************************)
BadBuiltinSolution ==
    [WA |-> "blue", NT |-> "green", SA |-> "red", Q |-> "green",
     NSW |-> "green", V |-> "blue", T |-> "red"]

BuiltinSolution ==
    [WA |-> "blue", NT |-> "green", SA |-> "red", Q |-> "blue",
     NSW |-> "green", V |-> "blue", T |-> "red"]

BuiltinAdjacencies ==
    << <<"WA",  <<"NT", "SA">> >>,
       <<"NT",  <<"WA", "SA", "Q">> >>,
       <<"SA",  <<"WA", "NT", "Q", "NSW", "V">> >>,
       <<"Q",   <<"NT", "SA", "NSW">> >>,
       <<"NSW", <<"Q", "SA", "V">> >>,
       <<"V",   <<"SA", "NSW">> >>,
       <<"T",   << >> >> >>

(***************************************************************************)
(* Python string order, as sorted() uses it: strings compare as their      *)
(* sequences of code points.                                               *)
(***************************************************************************)
CodePoints ==
    [blue  |-> <<98, 108, 117, 101>>,
     green |-> <<103, 114, 101, 101, 110>>,
     red   |-> <<114, 101, 100>>]

RECURSIVE SeqLess(_, _)
SeqLess(s, t) ==
    IF s = << >> THEN t # << >>
    ELSE IF t = << >> THEN FALSE
    ELSE IF Head(s) # Head(t) THEN Head(s) < Head(t)
    ELSE SeqLess(Tail(s), Tail(t))

StrLess(a, b) == SeqLess(CodePoints[a], CodePoints[b])

RECURSIVE sorted(_)
sorted(S) ==
    IF S = {} THEN << >>
    ELSE LET m == CHOOSE x \in S : \A y \in S \ {x} : StrLess(x, y)
         IN  <<m>> \o sorted(S \ {m})

len(S) == Cardinality(S)

values(d) == {d[k] : k \in DOMAIN d}

(***************************************************************************)
(* validate_coloring, lines 28-47.                                         *)
(***************************************************************************)
region_of(item) == item[1]
neighbors_of(item) == item[2]

\* a violation text with the region and the neighbour exchanged
SwappedViolation(region, neighbor, region_color) ==
    <<neighbor, " and ", region, " both have color ", region_color>>

\* line 41: the f-string, as the sequence of its literal and substituted parts
Violation(region, neighbor, region_color) ==
    <<region, " and ", neighbor, " both have color ", region_color>>

\* a list that outlives the call
StaleViolations == violations

\* line 31
NewViolations == << >>

\* a flag that starts out wrong
InvalidAtStart == FALSE

\* line 30
NewValid == TRUE

\* a narration that looks no label up
NoLookups(neighbors, j) == [kind |-> "ok"]

\* line 35: the generator inside join() looks up solution[n] for every n of
\* neighbors, in list order, before any neighbour is compared
RECURSIVE Narration(_, _)
Narration(neighbors, j) ==
    IF j > Len(neighbors) THEN [kind |-> "ok"]
    ELSE IF neighbors[j] \notin DOMAIN solution
         THEN [kind |-> "KeyError", key |-> neighbors[j]]
         ELSE Narration(neighbors, j + 1)

\* a scan without the break: the last neighbour of the same colour wins
RECURSIVE ScanLast(_, _, _)
ScanLast(neighbors, region_color, j) ==
    IF j > Len(neighbors) THEN [kind |-> "else"]
    ELSE IF neighbors[j] \notin DOMAIN solution
         THEN [kind |-> "KeyError", key |-> neighbors[j]]
         ELSE LET rest == ScanLast(neighbors, region_color, j + 1)
              IN  IF solution[neighbors[j]] = region_color /\ rest.kind = "else"
                  THEN [kind |-> "break", neighbor |-> neighbors[j]]
                  ELSE rest

\* a scan that leaves out the first neighbour of the list
RECURSIVE ScanFromSecond(_, _, _)
ScanFromSecond(neighbors, region_color, j) ==
    IF j > Len(neighbors) THEN [kind |-> "else"]
    ELSE IF neighbors[j] \notin DOMAIN solution
         THEN [kind |-> "KeyError", key |-> neighbors[j]]
         ELSE IF j > 1 /\ solution[neighbors[j]] = region_color
              THEN [kind |-> "break", neighbor |-> neighbors[j]]
              ELSE ScanFromSecond(neighbors, region_color, j + 1)

\* a scan that compares with != instead of ==
RECURSIVE ScanNotEqual(_, _, _)
ScanNotEqual(neighbors, region_color, j) ==
    IF j > Len(neighbors) THEN [kind |-> "else"]
    ELSE IF neighbors[j] \notin DOMAIN solution
         THEN [kind |-> "KeyError", key |-> neighbors[j]]
         ELSE IF solution[neighbors[j]] # region_color
              THEN [kind |-> "break", neighbor |-> neighbors[j]]
              ELSE ScanNotEqual(neighbors, region_color, j + 1)

\* lines 38-45: the scan of one region's neighbours from position j on; it stops
\* at the first neighbour of the same colour (break) or runs off the list (else)
RECURSIVE Scan(_, _, _)
Scan(neighbors, region_color, j) ==
    IF j > Len(neighbors) THEN [kind |-> "else"]
    ELSE IF neighbors[j] \notin DOMAIN solution
         THEN [kind |-> "KeyError", key |-> neighbors[j]]
         ELSE IF solution[neighbors[j]] = region_color
              THEN [kind |-> "break", neighbor |-> neighbors[j]]
              ELSE Scan(neighbors, region_color, j + 1)

Raise(key) ==
    /\ pc' = "raised"
    /\ outcomes' = Append(outcomes, [kind |-> "KeyError", key |-> key])
    /\ UNCHANGED <<solution, adjacencies, idx, valid, violations, colors_used, printed>>

\* line 52 -> lines 30-31: the call binds the arguments and sets the locals
Call ==
    /\ pc = "main"
    /\ pc' = "loop"
    /\ idx' = 1
    /\ valid' = NewValid
    /\ violations' = NewViolations
    /\ UNCHANGED <<solution, adjacencies, outcomes, colors_used, printed>>

\* line 34 fails: the region has no entry in solution
RegionLookupFails ==
    /\ pc = "loop"
    /\ idx <= Len(adjacencies)
    /\ region_of(adjacencies[idx]) \notin DOMAIN solution
    /\ Raise(region_of(adjacencies[idx]))

\* line 35 fails: some neighbour of the region has no entry in solution
NarrationLookupFails ==
    /\ pc = "loop"
    /\ idx <= Len(adjacencies)
    /\ region_of(adjacencies[idx]) \in DOMAIN solution
    /\ LET n == Narration(neighbors_of(adjacencies[idx]), 1)
       IN  /\ n.kind = "KeyError"
           /\ Raise(n.key)

\* lines 34-45 without a failure at 34 or 35: one iteration of the loop of line 33
ScanNeighbors ==
    /\ pc = "loop"
    /\ idx <= Len(adjacencies)
    /\ region_of(adjacencies[idx]) \in DOMAIN solution
    /\ Narration(neighbors_of(adjacencies[idx]), 1).kind = "ok"
    /\ LET region == region_of(adjacencies[idx])
           region_color == solution[region]
           s == Scan(neighbors_of(adjacencies[idx]), region_color, 1)
       IN  CASE s.kind = "KeyError" -> Raise(s.key)
             [] s.kind = "break" ->
                  /\ valid' = FALSE
                  /\ violations' =
                        Append(violations, Violation(region, s.neighbor, region_color))
                  /\ idx' = idx + 1
                  /\ UNCHANGED <<solution, adjacencies, pc, outcomes, colors_used, printed>>
             [] s.kind = "else" ->
                  /\ idx' = idx + 1
                  /\ UNCHANGED <<solution, adjacencies, pc, valid, violations,
                                 outcomes, colors_used, printed>>

\* line 47, reached when the loop of line 33 is exhausted
Return ==
    /\ pc = "loop"
    /\ idx > Len(adjacencies)
    /\ pc' = "returned"
    /\ outcomes' = Append(outcomes,
                      [kind |-> "return", valid |-> valid, violations |-> violations])
    /\ UNCHANGED <<solution, adjacencies, idx, valid, violations, colors_used, printed>>

\* lines 54-58: the result line and the colours used
Summary ==
    /\ pc = "returned"
    /\ pc' = "done"
    /\ colors_used' = values(solution)
    /\ printed' = <<len(values(solution)), sorted(values(solution))>>
    /\ UNCHANGED <<solution, adjacencies, idx, valid, violations, outcomes>>

\* a caller that calls validate_coloring again with the same arguments
CallAgain ==
    /\ pc \in {"returned", "raised"}
    /\ Len(outcomes) < MaxCalls
    /\ pc' = "loop"
    /\ idx' = 1
    /\ valid' = NewValid
    /\ violations' = NewViolations
    /\ UNCHANGED <<solution, adjacencies, outcomes, colors_used, printed>>

(***************************************************************************)
(* Inputs: the built-in data, and every graph over Nodes with at most      *)
(* MaxEdges neighbour entries in all, with every colouring of a subset of  *)
(* Nodes by Labels.                                                        *)
(***************************************************************************)
KeyOrders ==
    UNION { {k \in [1..n -> Nodes] : \A a, b \in 1..n : a # b => k[a] # k[b]}
            : n \in 0..Cardinality(Nodes) }

RECURSIVE SumTo(_, _)
SumTo(f, n) == IF n = 0 THEN 0 ELSE f[n] + SumTo(f, n - 1)

GeneratedInput ==
    /\ \E D \in SUBSET Nodes : solution \in [D -> Labels]
    /\ \E keys \in KeyOrders :
         \E lens \in [1..Len(keys) -> 0..MaxEdges] :
            /\ SumTo(lens, Len(keys)) <= MaxEdges
            /\ \E nb \in [{ij \in (1..Len(keys)) \X (1..MaxEdges) : ij[2] <= lens[ij[1]]}
                          -> Nodes] :
                 adjacencies =
                    [i \in 1..Len(keys) |->
                       <<keys[i], [j \in 1..lens[i] |-> nb[<<i, j>>]]>>]

BuiltinInput ==
    /\ solution = BuiltinSolution
    /\ adjacencies = BuiltinAdjacencies

Init ==
    /\ GeneratedInput \/ BuiltinInput
    /\ pc = "main"
    /\ idx = 1
    /\ valid = TRUE
    /\ violations = << >>
    /\ outcomes = << >>
    /\ colors_used = {}
    /\ printed = << >>

Next ==
    \/ Call
    \/ RegionLookupFails
    \/ NarrationLookupFails
    \/ ScanNeighbors
    \/ Return
    \/ Summary

Spec == Init /\ [][Next]_vars

NextTwice == Next \/ CallAgain

SpecTwice == Init /\ [][NextTwice]_vars

(***************************************************************************)
(* Vocabulary of the properties.                                           *)
(***************************************************************************)
Keys == 1..Len(adjacencies)
RegionAt(i) == adjacencies[i][1]
NeighborsAt(i) == adjacencies[i][2]

\* every graph key and every listed neighbour has a label
Total ==
    \A i \in Keys :
       /\ RegionAt(i) \in DOMAIN solution
       /\ \A j \in 1..Len(NeighborsAt(i)) : NeighborsAt(i)[j] \in DOMAIN solution

\* the positions in the list of the i-th region holding a neighbour of its colour
ConflictsOf(i) ==
    {j \in 1..Len(NeighborsAt(i)) :
        /\ RegionAt(i) \in DOMAIN solution
        /\ NeighborsAt(i)[j] \in DOMAIN solution
        /\ solution[NeighborsAt(i)[j]] = solution[RegionAt(i)]}

Conflicting == {i \in Keys : ConflictsOf(i) # {}}

FirstConflict(i) == CHOOSE j \in ConflictsOf(i) : \A k \in ConflictsOf(i) : j <= k

Returned == pc \in {"returned", "done"}
Last == outcomes[Len(outcomes)]
Verdict(v, vs) == [kind |-> "return", valid |-> v, violations |-> vs]

\* the entries of a violation list that are about region r
EntriesOf(vs, r) == {k \in 1..Len(vs) : vs[k][1] = r}

(***************************************************************************)
(* C1: on a total coloring in which some region has a neighbour of its own *)
(* colour in its list, the call does not fail and what it returns is       *)
(* valid = false with a non-empty violation list.                          *)
(***************************************************************************)
C1_ConflictReported ==
    (Total /\ Conflicting # {}) =>
        /\ pc # "raised"
        /\ Returned =>
              /\ Last.kind = "return"
              /\ Last.valid = FALSE
              /\ Last.violations # << >>

C1_Witness == Returned /\ Total /\ Conflicting # {}

(***************************************************************************)
(* C2: on a total coloring in which every region differs in colour from    *)
(* every neighbour of its list, the call does not fail and returns         *)
(* valid = true with an empty violation list.                              *)
(***************************************************************************)
C2_ProperIsValid ==
    (Total /\ Conflicting = {}) =>
        /\ pc # "raised"
        /\ Returned => Last = Verdict(TRUE, << >>)

C2_Witness ==
    /\ Returned /\ Total /\ Conflicting = {}
    /\ \E i \in Keys : Len(NeighborsAt(i)) >= 2

(***************************************************************************)
(* C3: when a graph key or a listed neighbour has no label, the call never *)
(* returns a verdict: the loop does not reach its end, and when the call   *)
(* ends it ends with a KeyError naming an unlabelled node of the graph,    *)
(* which is no verdict; this is so also when violations were recorded for  *)
(* earlier regions.                                                        *)
(***************************************************************************)
C3_MissingLabelAborts ==
    ~Total =>
        /\ ~Returned
        /\ ~(pc = "loop" /\ idx > Len(adjacencies))
        /\ \A k \in 1..Len(outcomes) : outcomes[k].kind # "return"
        /\ pc = "raised" =>
              /\ Last.kind = "KeyError"
              /\ Last.key \notin DOMAIN solution
              /\ \/ Last.key = RegionAt(idx)
                 \/ \E j \in 1..Len(NeighborsAt(idx)) : Last.key = NeighborsAt(idx)[j]

C3_Witness ==
    /\ pc = "raised"
    /\ violations # << >>
    /\ RegionAt(idx) \in DOMAIN solution
    /\ ConflictsOf(idx) # {}

(***************************************************************************)
(* C4: on a graph whose neighbour lists are all empty, with every graph    *)
(* key labelled (also when all labels are the same), the call returns      *)
(* valid = true with an empty violation list.                              *)
(***************************************************************************)
EdgeFree == \A i \in Keys : NeighborsAt(i) = << >>
KeysLabelled == \A i \in Keys : RegionAt(i) \in DOMAIN solution

C4_EdgeFreeIsValid ==
    (EdgeFree /\ KeysLabelled) =>
        /\ pc # "raised"
        /\ Returned => Last = Verdict(TRUE, << >>)

C4_Witness ==
    /\ Returned /\ EdgeFree /\ KeysLabelled
    /\ Len(adjacencies) >= 2
    /\ \A i, k \in Keys : solution[RegionAt(i)] = solution[RegionAt(k)]

(***************************************************************************)
(* C5: on a total input the returned list holds exactly one entry for each *)
(* region with a neighbour of its colour and none for any other region;    *)
(* the entry of a region names the first such neighbour of its list; the   *)
(* entries come in the iteration order of the graph.  So the list is as    *)
(* long as the number of regions in conflict.                              *)
(***************************************************************************)
\* the k-th region in conflict, in iteration order
KthConflicting(k) ==
    CHOOSE i \in Conflicting : Cardinality({h \in Conflicting : h <= i}) = k

C5_FirstViolationPerNode ==
    (Total /\ Returned) =>
        /\ Last.kind = "return"
        /\ Len(Last.violations) = Cardinality(Conflicting)
        /\ \A k \in 1..Len(Last.violations) :
              LET i == KthConflicting(k)
              IN  Last.violations[k] =
                     <<RegionAt(i), " and ", NeighborsAt(i)[FirstConflict(i)],
                       " both have color ", solution[RegionAt(i)]>>
        /\ \A i \in Keys :
              Cardinality(EntriesOf(Last.violations, RegionAt(i)))
                 = IF i \in Conflicting THEN 1 ELSE 0

C5_Witness ==
    /\ Total /\ Returned
    /\ Cardinality(Conflicting) = 2
    /\ Len(adjacencies) = 3
    /\ \E i \in Conflicting :
          /\ Cardinality(ConflictsOf(i)) = 2
          /\ NeighborsAt(i)[1] # NeighborsAt(i)[2]

(***************************************************************************)
(* C6: calls on the same inputs end the same way (the same verdict with    *)
(* the same violation sequence, or the same failure), and no step of a     *)
(* call changes the coloring or the graph.                                 *)
(***************************************************************************)
C6_Deterministic ==
    /\ [](\A a, b \in 1..Len(outcomes) : outcomes[a] = outcomes[b])
    /\ [][solution' = solution /\ adjacencies' = adjacencies]_vars

C6_Witness ==
    /\ Len(outcomes) = MaxCalls
    /\ Last.kind = "return"
    /\ Len(Last.violations) >= 2

C6_WitnessFailure ==
    /\ Len(outcomes) = MaxCalls
    /\ Last.kind = "KeyError"
    /\ violations # << >>

(***************************************************************************)
(* C7: on the built-in table and solution the call returns valid = true    *)
(* with no violations, and the summary counts 3 colours used, listed       *)
(* sorted as blue, green, red.                                             *)
(***************************************************************************)
BuiltinRun == solution = BuiltinSolution /\ adjacencies = BuiltinAdjacencies

C7_BuiltinIsValid3Coloring ==
    BuiltinRun =>
        /\ pc # "raised"
        /\ Returned => Last = Verdict(TRUE, << >>)
        /\ pc = "done" =>
              /\ colors_used = {"blue", "green", "red"}
              /\ printed = <<3, <<"blue", "green", "red">> >>

C7_Witness == BuiltinRun /\ pc = "done"

(***************************************************************************)
(* C8, as claimed: when the list of a labelled region holds a neighbour of *)
(* its colour and, later in the list, a neighbour without a label (and     *)
(* none before), the call records the violation and goes on to the next    *)
(* region; no lookup failure is raised at that region.  Stated for graphs  *)
(* in which no region lists itself, so that the refuting input is an       *)
(* ordinary map.                                                           *)
(***************************************************************************)
NoSelfLoops ==
    \A i \in Keys : \A j \in 1..Len(NeighborsAt(i)) : NeighborsAt(i)[j] # RegionAt(i)

\* the i-th region is labelled, and its first unlabelled neighbour comes after
\* its first neighbour of the same colour
ConflictThenMissing(i) ==
    /\ RegionAt(i) \in DOMAIN solution
    /\ ConflictsOf(i) # {}
    /\ \E k \in 1..Len(NeighborsAt(i)) :
          /\ NeighborsAt(i)[k] \notin DOMAIN solution
          /\ k > FirstConflict(i)
    /\ \A k \in 1..Len(NeighborsAt(i)) :
          NeighborsAt(i)[k] \notin DOMAIN solution => k > FirstConflict(i)

FirstMissing(i) ==
    CHOOSE k \in 1..Len(NeighborsAt(i)) :
       /\ NeighborsAt(i)[k] \notin DOMAIN solution
       /\ \A h \in 1..(k - 1) : NeighborsAt(i)[h] \in DOMAIN solution

C8_NoFailureAfterViolation ==
    NoSelfLoops =>
       \A i \in Keys :
          ConflictThenMissing(i) => ~(pc = "raised" /\ idx = i)

(***************************************************************************)
(* C8, amended: a region gets at most one violation, but the narration of  *)
(* line 35 looks up the label of every neighbour before the scan starts:   *)
(* at a region whose list holds a neighbour of its colour followed by an   *)
(* unlabelled neighbour the call never gets past that region, and when it  *)
(* comes to it the call fails with a KeyError naming the first unlabelled  *)
(* neighbour, with no violation recorded for the region.                   *)
(***************************************************************************)
C8_NarrationFailsBeforeScan ==
    /\ \A i \in Keys : Cardinality(EntriesOf(violations, RegionAt(i))) <= 1
    /\ \A i \in Keys :
          ConflictThenMissing(i) =>
             /\ idx <= i
             /\ ~Returned
             /\ (pc = "raised" /\ idx = i) =>
                   /\ Last = [kind |-> "KeyError",
                              key |-> NeighborsAt(i)[FirstMissing(i)]]
                   /\ EntriesOf(violations, RegionAt(i)) = {}

C8_Witness ==
    /\ pc = "raised"
    /\ ConflictThenMissing(idx)
    /\ idx >= 2

(***************************************************************************)
(* C9, as claimed: on a total input where A lists B, B does not list A     *)
(* and both have the same label, the returned list has an entry for A      *)
(* naming B and none for B naming A, and B has an entry only if a          *)
(* neighbour of its own list has its label.  Stated for graphs in which no *)
(* region lists itself.                                                    *)
(***************************************************************************)
\* the region at j lists the region at i
Lists(j, i) == \E h \in 1..Len(NeighborsAt(j)) : NeighborsAt(j)[h] = RegionAt(i)

\* position h of the list of the i-th region holds a B that has the label of A,
\* is not A, and does not list A
OneWayConflict(i, h) ==
    /\ h \in ConflictsOf(i)
    /\ NeighborsAt(i)[h] # RegionAt(i)
    /\ \A j \in Keys : RegionAt(j) = NeighborsAt(i)[h] => ~Lists(j, i)

Names(vs, a, b) == \E k \in 1..Len(vs) : vs[k][1] = a /\ vs[k][3] = b

NoneForBOnAccountOfA(i, h) ==
    /\ ~Names(Last.violations, NeighborsAt(i)[h], RegionAt(i))
    /\ \A j \in Keys :
          RegionAt(j) = NeighborsAt(i)[h] =>
             (EntriesOf(Last.violations, RegionAt(j)) # {} <=> ConflictsOf(j) # {})

C9_DirectedEdgeNamesB ==
    (Total /\ Returned /\ NoSelfLoops) =>
        \A i \in Keys : \A h \in 1..Len(NeighborsAt(i)) :
           OneWayConflict(i, h) =>
              /\ Names(Last.violations, RegionAt(i), NeighborsAt(i)[h])
              /\ NoneForBOnAccountOfA(i, h)

(***************************************************************************)
(* C9, amended: on such an input the returned list has one entry for A,    *)
(* which names the first neighbour of A's list that has A's label (B when  *)
(* no neighbour before B in A's list has it), and none for B naming A; B   *)
(* has an entry exactly when a neighbour of its own list has its label.    *)
(***************************************************************************)
C9_DirectedEdge ==
    (Total /\ Returned) =>
        \A i \in Keys : \A h \in 1..Len(NeighborsAt(i)) :
           OneWayConflict(i, h) =>
              /\ Cardinality(EntriesOf(Last.violations, RegionAt(i))) = 1
              /\ Names(Last.violations, RegionAt(i), NeighborsAt(i)[FirstConflict(i)])
              /\ h = FirstConflict(i) =>
                    Names(Last.violations, RegionAt(i), NeighborsAt(i)[h])
              /\ NoneForBOnAccountOfA(i, h)

C9_Witness ==
    /\ Total /\ Returned
    /\ \E i, j \in Keys :
          /\ OneWayConflict(i, 1)
          /\ RegionAt(j) = NeighborsAt(i)[1]
          /\ EntriesOf(Last.violations, RegionAt(j)) = {}
          /\ i < j

(***************************************************************************)
(* C10: during a pass, after each region, valid holds exactly when the     *)
(* violation list is empty; every entry names a region and a neighbour of  *)
(* its list that has the same label; a step of the pass only appends to    *)
(* the list and never sets valid back to true; and the verdict returned is *)
(* valid exactly when it holds no violations.                              *)
(***************************************************************************)
WellFormedEntry(e) ==
    \E i \in Keys : \E j \in ConflictsOf(i) :
       /\ e[1] = RegionAt(i)
       /\ e[3] = NeighborsAt(i)[j]
       /\ e[5] = solution[RegionAt(i)]

C10_PassState ==
    pc # "main" =>
        /\ valid <=> violations = << >>
        /\ \A k \in 1..Len(violations) : WellFormedEntry(violations[k])
        /\ Returned => (Last.valid <=> Last.violations = << >>)

C10_PassStep ==
    pc = "loop" =>
        /\ Len(violations') >= Len(violations)
        /\ SubSeq(violations', 1, Len(violations)) = violations
        /\ ~valid => ~valid'

C10_ValidIffNoViolations == []C10_PassState /\ [][C10_PassStep]_vars

C10_Witness ==
    /\ pc = "loop"
    /\ idx = 4
    /\ ~valid
    /\ Len(violations) = 2
    /\ ConflictsOf(1) # {}
    /\ ConflictsOf(2) = {}

====
